---- MODULE Spec2Model ----
(***************************************************************************)
(* Model of src/main.rs: the polling loop of main, one cycle of            *)
(* upload_modified_files (scan, per-file dirtiness test, sync, tracker     *)
(* insert) and the two remote calls of upload_and_plug_file.               *)
(*                                                                         *)
(* A path has its components, each a sequence of one-character strings,    *)
(* so that Path::extension is computed, not assumed.                       *)
(* The file system and the remote service are the environment: files are   *)
(* touched, removed and restored, directories may be unreadable, and the   *)
(* remote answers every call with any status and body, or not at all.      *)
(***************************************************************************)
EXTENDS Integers, Sequences, FiniteSets, TLC

\* ---------------------------------------------------------------- bounds
\* modification times range over 1..MaxTime
MaxTime == 2
\* the per-path count of create calls saturates here
MaxCreates == 2

\* ------------------------------------------------------ program constants
LONG_SLEEP == 60
SHORT_SLEEP == 10

\* ------------------------------------------------------------ file system
\* Paths are the strings path.to_str() gives; Components is the same path
\* as Path sees it, component by component and character by character.
DirD == "d"
DirDL == "d/l"
DirMissing == "m"
A_PY == "d/a.py"
B_TXT == "d/b.txt"
DOT_PY == "d/.py"
C_PY == "d/l/c.py"
README == "d/l/R"
E_UPPER == "d/l/e.PY"

D == <<"d">>
L == <<"l">>
M == <<"m">>
Components(p) ==
    CASE p = DirD -> <<D>>
      [] p = DirDL -> <<D, L>>
      [] p = DirMissing -> <<M>>
      [] p = A_PY -> <<D, <<"a", ".", "p", "y">>>>
      [] p = B_TXT -> <<D, <<"b", ".", "t", "x", "t">>>>
      [] p = DOT_PY -> <<D, <<".", "p", "y">>>>
      [] p = C_PY -> <<D, L, <<"c", ".", "p", "y">>>>
      [] p = README -> <<D, L, <<"R">>>>
      [] p = E_UPPER -> <<D, L, <<"e", ".", "P", "Y">>>>

FsDirs == {DirD, DirDL}
\* the files that come and go and whose modification time changes
Tracked == {A_PY, C_PY}

\* fs::read_dir(dir): the entries of dir that exist, in directory order.
ReadDir(dir, present_) ==
    LET all == IF dir = DirD THEN <<A_PY, DirDL, B_TXT, DOT_PY>>
               ELSE IF dir = DirDL THEN <<C_PY, README, E_UPPER>>
               ELSE <<>>
    IN SelectSeq(all, LAMBDA e : e \in Tracked => e \in present_)

\* Path::is_dir
IsDir(p) == p \in FsDirs

\* ------------------------------------------------------------ configuration
\* the values config.file_types may have
FileTypeConfigs == {<<"py">>}
\* the values config.directories may have
Configs == {<<DirD, DirDL>>, <<DirMissing, DirDL>>}

\* the sequences of at most two elements of S
SeqUpTo2(S) == {<<>>} \cup {<<x>> : x \in S} \cup {<<x, y>> : x, y \in S}

\* the roots and the accepted extensions the scan is examined on
ScanRootInputs == SeqUpTo2({DirD, DirDL, DirMissing})
ScanTypeInputs == SeqUpTo2({"py", "txt", "PY", "R"})

\* ------------------------------------------------------------ remote service
FileIds == {"f1", "f2"}
PlugIds == {"p1", "p2"}
\* Option<T>: the empty sequence is None, <<x>> is Some(x)
None == <<>>
Some(x) == <<x>>
OK == 200
SERVER_ERROR == 500
Statuses == {OK, SERVER_ERROR}
\* a response body: a JSON document with a string "id", a JSON document
\* whose "id" is missing or not a string, or a body that is not JSON
NoIdBody == "no_id"
NotJsonBody == "not_json"
Bodies(ids) == ids \cup {NoIdBody, NotJsonBody}

\* ------------------------------------------------------------------- state
VARIABLES
    directories,  \* config.directories
    file_types,   \* config.file_types
    mtime,        \* file system: modification time of each tracked file
    present,      \* file system: the tracked files that exist
    last_check,   \* HashMap<String, FileInfo>, a function on its key set
    pc,           \* where main stands
    wait,         \* the duration of the sleep main is in (0: none yet)
    err,          \* the kind of the error upload_modified_files returned
    files,        \* the Vec filled by scan_directory
    i,            \* position of `for path in files`
    modified,     \* metadata.modified() of the current path
    file_id,      \* the id returned by the upload
    status,       \* status of the upload response of the sync under way
                  \* (0: none)
    calls,        \* the requests sent in the sync under way
    creates,      \* per path, how many POST /agents/plugs were sent
    tally,        \* <<f, s>>: of the syncs this cycle carried through, f got
                  \* a non-2xx answer to a request and s got none
    err_path      \* the path at which the error returned arose, if any

vars == <<directories, file_types, mtime, present, last_check, pc, wait, err,
          files, i, modified, file_id, status, calls, creates, tally,
          err_path>>

\* ------------------------------------------------------------- pure helpers
Last(s) == s[Len(s)]

Contains(seq, x) == \E k \in 1..Len(seq) : seq[k] = x

RECURSIVE Concat(_)
\* to_str of a sequence of characters
Concat(cs) == IF cs = <<>> THEN "" ELSE Head(cs) \o Concat(Tail(cs))

\* the positions of "." in a file name
Dots(name) == {k \in 1..Len(name) : name[k] = "."}

Max(S) == CHOOSE x \in S : \A y \in S : y <= x

\* an extension that also counts a "." at the start of the file name
Extension_LeadingDot(p) ==
    LET name == Last(Components(p))
        dots == Dots(name)
    IN IF dots = {} THEN None
       ELSE Some(Concat(SubSeq(name, Max(dots) + 1, Len(name))))

\* Path::extension: the part of the file name after its last ".", absent
\* when the name has no "." or its only "." is the first character.
Extension(p) ==
    LET name == Last(Components(p))
        dots == Dots(name) \ {1}
    IN IF dots = {} THEN None
       ELSE Some(Concat(SubSeq(name, Max(dots) + 1, Len(name))))

is_source_file(p, types) ==
    LET ext == Extension(p)
    IN IF ext = None THEN FALSE ELSE Contains(types, ext[1])

\* scan_directory(dir, files, file_types).  unreadable is the set of
\* directories whose read_dir fails.  The result is the Vec as the call
\* leaves it and whether the call returned Ok.
RECURSIVE ScanEntries(_, _, _, _, _)
\* a directory that cannot be read is passed over and the scan goes on
scan_directory_Swallow(dir, acc, types, present_, unreadable) ==
    IF ~IsDir(dir) \/ dir \in unreadable THEN [ok |-> TRUE, files |-> acc]
    ELSE ScanEntries(ReadDir(dir, present_), acc, types, present_, unreadable)

scan_directory(dir, acc, types, present_, unreadable) ==
    IF ~IsDir(dir) THEN [ok |-> TRUE, files |-> acc]
    ELSE IF dir \in unreadable THEN [ok |-> FALSE, files |-> acc]
    ELSE ScanEntries(ReadDir(dir, present_), acc, types, present_, unreadable)

ScanEntries(entries, acc, types, present_, unreadable) ==
    IF entries = <<>> THEN [ok |-> TRUE, files |-> acc]
    ELSE LET entry == Head(entries)
             sub == IF IsDir(entry)
                    THEN scan_directory(entry, acc, types, present_, unreadable)
                    ELSE IF is_source_file(entry, types)
                         THEN [ok |-> TRUE, files |-> Append(acc, entry)]
                         ELSE [ok |-> TRUE, files |-> acc]
         IN IF sub.ok
            THEN ScanEntries(Tail(entries), sub.files, types, present_, unreadable)
            ELSE sub

\* `for dir in directories { scan_directory(..)?; }`
RECURSIVE ScanRoots(_, _, _, _, _)
ScanRoots(dirs, acc, types, present_, unreadable) ==
    IF dirs = <<>> THEN [ok |-> TRUE, files |-> acc]
    ELSE LET r == scan_directory(Head(dirs), acc, types, present_, unreadable)
         IN IF r.ok
            THEN ScanRoots(Tail(dirs), r.files, types, present_, unreadable)
            ELSE r

\* ------------------------------------------------------------------- init
\* main after load_config and get_api_key succeeded, at the top of `loop`
Init ==
    /\ directories \in Configs
    /\ file_types \in FileTypeConfigs
    /\ mtime = [p \in Tracked |-> 1]
    /\ present = Tracked
    /\ last_check = [p \in {} |-> 0]
    /\ pc = "scan"
    /\ wait = 0
    /\ err = "none"
    /\ files = <<>>
    /\ i = 1
    /\ modified = 0
    /\ file_id = None
    /\ status = 0
    /\ calls = <<>>
    /\ creates = [p \in Tracked |-> 0]
    /\ tally = <<0, 0>>
    /\ err_path = None

\* the current element of `for path in files`
path == files[i]

contains_key(map, key) == key \in DOMAIN map

\* the record is not written
insert_Dropped(map, key, info) == map

\* the record written replaces the whole map
insert_Clobber(map, key, info) == [k \in {key} |-> info]

\* last_check.insert(key, info)
insert(map, key, info) ==
    [k \in DOMAIN map \cup {key} |-> IF k = key THEN info ELSE map[k]]

\* the dirtiness test with `<=` for `<`
IsDirty_Leq(map, key, m) ==
    ~contains_key(map, key) \/ map[key].last_modified <= m

\* the dirtiness test with `!=` for `<`
IsDirty_Neq(map, key, m) ==
    ~contains_key(map, key) \/ map[key].last_modified # m

\* the condition of the `if` at line 137
IsDirty(map, key, m) ==
    ~contains_key(map, key) \/ map[key].last_modified < m

\* the stored plug_id is not passed on
ExistingPlugId_Forgotten(map, key) == None

\* last_check.get(&filename).and_then(|info| info.plug_id.clone())
ExistingPlugId(map, key) ==
    IF contains_key(map, key) THEN map[key].plug_id ELSE None

\* the locals of upload_modified_files are dropped when it returns
DropLocals ==
    /\ files' = <<>>
    /\ i' = 1
    /\ modified' = 0
    /\ file_id' = None
    /\ status' = 0
    /\ calls' = <<>>
    /\ tally' = <<0, 0>>

\* the duration main sleeps after upload_modified_files returned
SleepAfterOk == LONG_SLEEP
\* the long sleep on the error branch
SleepAfterErr_Long == LONG_SLEEP

SleepAfterErr == SHORT_SLEEP

\* upload_modified_files returns Err(e) through a `?`; main prints it and
\* sleeps
ReturnErr(kind) ==
    /\ pc' = "sleep"
    /\ wait' = SleepAfterErr
    /\ err' = kind
    /\ err_path' = (IF kind = "scan" THEN None ELSE Some(path))
    /\ DropLocals

\* what the scan of lines 126-130 can give: any set of directories may be
\* unreadable when it runs
ScanOutcomes(dirs, types, present_) ==
    {ScanRoots(dirs, <<>>, types, present_, unreadable) :
        unreadable \in SUBSET FsDirs}

\* ScanOutcomes for every configuration and every state of the file system,
\* computed once
ScanTable ==
    {<<dirs, types, present_, ScanOutcomes(dirs, types, present_)>> :
        dirs \in ScanRootInputs, types \in ScanTypeInputs,
        present_ \in SUBSET Tracked}

ScanLookup(dirs, types, present_) ==
    (CHOOSE t \in ScanTable :
        t[1] = dirs /\ t[2] = types /\ t[3] = present_)[4]

\* upload_modified_files is working on files[i]
InSync == pc \in {"read", "upload", "upload_wait", "plug", "plug_wait"}

\* ----------------------------------------------------------------- actions
\* lines 126-130: the scan of all roots
Scan ==
    /\ pc = "scan"
    /\ \E r \in ScanLookup(directories, file_types, present) :
            IF r.ok
            THEN /\ files' = r.files
                 /\ i' = 1
                 /\ pc' = "meta"
                 /\ UNCHANGED <<wait, err, modified, file_id, status, calls,
                                tally, err_path>>
            ELSE ReturnErr("scan")
    /\ UNCHANGED <<directories, file_types, mtime, present, last_check,
                   creates>>

\* lines 133-137: metadata, modified and the dirtiness test of one path
Meta ==
    /\ pc = "meta"
    /\ i <= Len(files)
    /\ IF path \notin present
       THEN ReturnErr("io")
       ELSE /\ modified' = mtime[path]
            /\ IF IsDirty(last_check, path, mtime[path])
               THEN pc' = "read" /\ i' = i
               ELSE pc' = "meta" /\ i' = i + 1
            /\ status' = 0
            /\ UNCHANGED <<wait, err, files, file_id, calls, tally, err_path>>
    /\ UNCHANGED <<directories, file_types, mtime, present, last_check,
                   creates>>

\* line 138: fs::read_to_string; unreadable stands for a file that exists
\* and cannot be read
ReadContent ==
    /\ pc = "read"
    /\ \E unreadable \in BOOLEAN :
         IF path \notin present \/ unreadable
         THEN ReturnErr("io")
         ELSE /\ pc' = "upload"
              /\ UNCHANGED <<wait, err, files, i, modified, file_id, status,
                             calls, tally, err_path>>
    /\ UNCHANGED <<directories, file_types, mtime, present, last_check,
                   creates>>

\* lines 72-79: POST /agents/files is sent
Upload ==
    /\ pc = "upload"
    /\ calls' = Append(calls, [op |-> "upload", path |-> path, ref |-> None,
                               file_id |-> None])
    /\ pc' = "upload_wait"
    /\ UNCHANGED <<directories, file_types, mtime, present, last_check, wait,
                   err, files, i, modified, file_id, status, creates, tally,
                   err_path>>

\* line 80: send() fails (transport error)
UploadSendError ==
    /\ pc = "upload_wait"
    /\ ReturnErr("remote")
    /\ UNCHANGED <<directories, file_types, mtime, present, last_check,
                   creates>>

\* a response without a string "id" is taken as one with an id
Decode_NoUnwrap(st, body) == IF body = NotJsonBody THEN "err" ELSE "id"

\* What lines 84-87 and 112-115 make of a response:
\* json() fails on a body that is not JSON, unwrap() panics when "id" is
\* missing or not a string; the status is printed and otherwise ignored.
Decode(st, body) ==
    IF body = NotJsonBody THEN "err"
    ELSE IF body = NoIdBody THEN "panic"
    ELSE "id"

\* lines 80-87: the upload response arrives
UploadResponse ==
    /\ pc = "upload_wait"
    /\ \E st \in Statuses, body \in Bodies(FileIds) :
         LET d == Decode(st, body)
         IN IF d = "err" THEN ReturnErr("remote")
            ELSE IF d = "panic"
            THEN /\ pc' = "panicked"
                 /\ err_path' = Some(path)
                 /\ DropLocals
                 /\ UNCHANGED <<wait, err>>
            ELSE /\ status' = st
                 /\ file_id' = Some(body)
                 /\ pc' = "plug"
                 /\ UNCHANGED <<wait, err, files, i, modified, calls, tally,
                                err_path>>
    /\ UNCHANGED <<directories, file_types, mtime, present, last_check,
                   creates>>

\* lines 89-107: PUT /agents/plugs/{id} when the record has a plug_id,
\* POST /agents/plugs otherwise
Plug ==
    /\ pc = "plug"
    /\ LET existing == ExistingPlugId(last_check, path)
       IN IF existing # None
          THEN /\ calls' = Append(calls, [op |-> "update", path |-> path,
                                          ref |-> existing, file_id |-> file_id])
               /\ UNCHANGED creates
          ELSE /\ calls' = Append(calls, [op |-> "create", path |-> path,
                                          ref |-> None, file_id |-> file_id])
               /\ creates' = [creates EXCEPT ![path] =
                                 IF @ < MaxCreates THEN @ + 1 ELSE @]
    /\ pc' = "plug_wait"
    /\ UNCHANGED <<directories, file_types, mtime, present, last_check, wait,
                   err, files, i, modified, file_id, status, tally,
                   err_path>>

\* lines 97, 107: send() fails (transport error)
PlugSendError ==
    /\ pc = "plug_wait"
    /\ ReturnErr("remote")
    /\ UNCHANGED <<directories, file_types, mtime, present, last_check,
                   creates>>

\* the record gets the modification time the file has when it is written
NewFileInfo_Now(m, id) == [last_modified |-> mtime[path], plug_id |-> Some(id)]

\* the FileInfo stored at lines 152-158
NewFileInfo(m, id) == [last_modified |-> m, plug_id |-> Some(id)]

\* lines 108-115 and 152-158: the plug response arrives and, when it
\* yields an id, the record is inserted
PlugResponse ==
    /\ pc = "plug_wait"
    /\ \E st \in Statuses, body \in Bodies(PlugIds) :
         LET d == Decode(st, body)
         IN IF d = "err"
            THEN ReturnErr("remote") /\ UNCHANGED last_check
            ELSE IF d = "panic"
            THEN /\ pc' = "panicked"
                 /\ err_path' = Some(path)
                 /\ DropLocals
                 /\ UNCHANGED <<wait, err, last_check>>
            ELSE /\ status' = 0
                 /\ last_check' = insert(last_check, path,
                                         NewFileInfo(modified, body))
                 /\ i' = i + 1
                 /\ pc' = "meta"
                 /\ file_id' = None
                 /\ calls' = <<>>
                 /\ tally' = (IF status = OK /\ st = OK
                               THEN <<tally[1], tally[2] + 1>>
                               ELSE <<tally[1] + 1, tally[2]>>)
                 /\ UNCHANGED <<wait, err, files, modified, err_path>>
    /\ UNCHANGED <<directories, file_types, mtime, present, creates>>

\* lines 160-162 and 181-182: the loop over files ends, Ok(()) is returned
\* and main sleeps
FinishCycle ==
    /\ pc = "meta"
    /\ i > Len(files)
    /\ pc' = "sleep"
    /\ wait' = SleepAfterOk
    /\ err' = "none"
    /\ err_path' = None
    /\ DropLocals
    /\ UNCHANGED <<directories, file_types, mtime, present, last_check,
                   creates>>

\* lines 172-173: the sleep ends and the loop calls upload_modified_files
StartCycle ==
    /\ pc = "sleep"
    /\ pc' = "scan"
    /\ wait' = 0
    /\ err' = "none"
    /\ err_path' = None
    /\ UNCHANGED <<directories, file_types, mtime, present, last_check, files,
                   i, modified, file_id, status, calls, creates, tally>>

\* ------------------------------------------------------------- environment
\* a tracked file is written, or its modification time is set
Touch ==
    /\ \E p \in present, t \in 1..MaxTime :
         /\ t # mtime[p]
         /\ mtime' = [mtime EXCEPT ![p] = t]
    /\ UNCHANGED <<directories, file_types, present, last_check, pc, wait, err,
                   files, i, modified, file_id, status, calls, creates, tally,
                   err_path>>

\* a tracked file is deleted
Remove ==
    /\ \E p \in present : present' = present \ {p}
    /\ UNCHANGED <<directories, file_types, mtime, last_check, pc, wait, err,
                   files, i, modified, file_id, status, calls, creates, tally,
                   err_path>>

\* a deleted file is created again
Restore ==
    /\ \E p \in Tracked \ present : present' = present \cup {p}
    /\ UNCHANGED <<directories, file_types, mtime, last_check, pc, wait, err,
                   files, i, modified, file_id, status, calls, creates, tally,
                   err_path>>

Next ==
    \/ Scan
    \/ Meta
    \/ ReadContent
    \/ Upload
    \/ UploadSendError
    \/ UploadResponse
    \/ Plug
    \/ PlugSendError
    \/ PlugResponse
    \/ FinishCycle
    \/ StartCycle
    \/ Touch
    \/ Remove
    \/ Restore

Spec == Init /\ [][Next]_vars

\* the sleep of main ends after its duration: the scheduler is fair to it
FairSpec == Spec /\ WF_vars(StartCycle)

\* the steps main takes by itself; at most one of them is enabled in a state
ProgramStep ==
    \/ Scan
    \/ Meta
    \/ ReadContent
    \/ Upload
    \/ Plug
    \/ FinishCycle
    \/ StartCycle

\* Every step the program itself takes is taken when it can be: the async
\* runtime keeps polling main.  The answers of the remote and the changes of
\* the file system are not the program's and get no fairness: nothing in
\* upload_and_plug_file bounds the wait for a response.
LiveSpec == Spec /\ WF_vars(ProgramStep)

\* a response or a transport error ends a call that is in flight
Answer == UploadSendError \/ UploadResponse \/ PlugSendError \/ PlugResponse

\* the program takes its steps and every call is answered
AnsweredSpec == Spec /\ WF_vars(ProgramStep) /\ WF_vars(Answer)

\* the scan alone, on every configuration of ScanRootInputs and
\* ScanTypeInputs and every state of the file system
ScanInit ==
    /\ directories \in ScanRootInputs
    /\ file_types \in ScanTypeInputs
    /\ mtime = [p \in Tracked |-> 1]
    /\ present \in SUBSET Tracked
    /\ last_check = [p \in {} |-> 0]
    /\ pc = "scan"
    /\ wait = 0
    /\ err = "none"
    /\ files = <<>>
    /\ i = 1
    /\ modified = 0
    /\ file_id = None
    /\ status = 0
    /\ calls = <<>>
    /\ creates = [p \in Tracked |-> 0]
    /\ tally = <<0, 0>>
    /\ err_path = None

ScanSpec == ScanInit /\ [][Scan]_vars

\* ------------------------------------------------------- shared predicates
\* the step is taken by the program at a path of the scan list, not by the
\* environment
ProgramStepAtPath == i <= Len(files) /\ (pc' # pc \/ i' # i)

\* ------------------------------------------------------------------- C1
\* C1 as stated: for every path at most one create call (POST /agents/plugs)
\* is ever issued, whatever remote failures occur.
C1_SingleCreateEver == \A p \in Tracked : creates[p] <= 1

\* C1 amended: create calls are issued for a path only until one of them
\* yields an id.  A path with a tracker record has had at least one create
\* call, gets no further create call, and its attach call is the update
\* call carrying the reference stored in the record.
C1_CreateOnce ==
    /\ [](\A p \in DOMAIN last_check : creates[p] >= 1)
    /\ []((pc = "plug_wait" /\ contains_key(last_check, path)) =>
             /\ Last(calls).op = "update"
             /\ Last(calls).ref = last_check[path].plug_id)
    /\ []((pc = "plug_wait" /\ Last(calls).op = "create") =>
             ~contains_key(last_check, path))
    /\ [][\A p \in DOMAIN last_check : creates'[p] = creates[p]]_vars

\* a second dirty cycle of a path: the update call is in flight and the one
\* create call of the path is in the past
C1_Witness ==
    /\ pc = "plug_wait"
    /\ contains_key(last_check, path)
    /\ Last(calls).op = "update"
    /\ creates[path] = 1

\* ------------------------------------------------------------------- C2
\* C2: when the sync of one file fails with a remote error, the other files
\* of the scan list are still attempted in that cycle: a cycle never ends on
\* a remote error while files of its list are left unattempted.
C2_PartialFailureIsolation ==
    [][(pc' = "sleep" /\ err' = "remote") => i >= Len(files)]_vars

\* ------------------------------------------------------------------- C3
\* C3: a file whose modification time equals the recorded last_modified gets
\* no network call: the cycle passes it by with no request sent, and no sync
\* is ever under way for a path whose sampled time equals the recorded one.
C3_UnmodifiedNoCalls ==
    /\ [](InSync => ~(/\ contains_key(last_check, path)
                      /\ last_check[path].last_modified = modified))
    /\ [][(/\ pc = "meta"
           /\ ProgramStepAtPath
           /\ path \in present
           /\ contains_key(last_check, path)
           /\ last_check[path].last_modified = mtime[path])
          => (pc' = "meta" /\ i' = i + 1 /\ calls' = <<>> /\ status' = 0)]_vars

\* the previous path of the list has a record with the time just sampled and
\* was passed by without a request
C3_Witness ==
    /\ pc = "meta"
    /\ i > 1
    /\ contains_key(last_check, files[i - 1])
    /\ files[i - 1] \in present
    /\ last_check[files[i - 1]].last_modified = modified
    /\ modified = mtime[files[i - 1]]
    /\ status = 0
    /\ tally = <<0, 0>>

\* ------------------------------------------------------------------- C4
\* C4: the cycle starts a sync for a scanned path if and only if the path
\* has no record or its modification time is strictly newer than the
\* recorded one; an equal or older time is not dirty.
C4_DirtyIff ==
    [][(pc = "meta" /\ ProgramStepAtPath /\ path \in present) =>
         ((pc' = "read") <=>
            (\/ path \notin DOMAIN last_check
             \/ mtime[path] > last_check[path].last_modified))]_vars

\* a path whose file is older than its record was passed by
C4_Witness ==
    /\ pc = "meta"
    /\ i > 1
    /\ contains_key(last_check, files[i - 1])
    /\ last_check[files[i - 1]].last_modified > modified
    /\ modified = mtime[files[i - 1]]
    /\ files[i - 1] \in present
    /\ status = 0
    /\ tally = <<0, 0>>

\* ------------------------------------------------------------------- C5
\* C5: a plug_id held by a record is held by that record in every later
\* state: no step removes the record or stores another value.
C5_RemoteRefStable ==
    [][\A p \in DOMAIN last_check :
          /\ p \in DOMAIN last_check'
          /\ last_check'[p].plug_id = last_check[p].plug_id]_vars

\* ------------------------------------------------------------------- C6
\* C6: a cycle whose scan succeeded and in which a sync failed with a remote
\* error is followed by the long sleep.
C6_LongSleepAfterRemoteError ==
    (pc = "sleep" /\ err = "remote") => wait = LONG_SLEEP

\* ------------------------------------------------------------------- C7
\* C7: a cycle that fails at the scan step is followed by the short sleep,
\* after which another cycle starts.
C7_ShortSleepAfterScanError ==
    /\ []((pc = "sleep" /\ err = "scan") => wait = SHORT_SLEEP)
    /\ ((pc = "sleep" /\ err = "scan") ~> pc = "scan")

\* main sleeps after a failed scan
C7_Witness == pc = "sleep" /\ err = "scan" /\ wait = SHORT_SLEEP

\* ------------------------------------------------------------------- C8
\* C8: once the loop is entered no remote answer terminates the process.
C8_NeverTerminates == pc # "panicked"

\* ------------------------------------------------------------------- C9
\* C9: no attach call follows an upload answered with a non-2xx status.
C9_NonSuccessIsFailure == pc \in {"plug", "plug_wait"} => status = OK

\* ------------------------------------------------------------------ C10
\* C10: a file that has vanished when its metadata or content is read is
\* skipped: the cycle goes on with the next path and reports no error.
C10_VanishedIsSkip ==
    [][(pc \in {"meta", "read"} /\ ProgramStepAtPath /\ path \notin present)
       => (pc' = "meta" /\ i' = i + 1 /\ err' = "none")]_vars

\* ------------------------------------------------------------------ C11
\* C11: every network call is bounded: a request that is in flight stops
\* being in flight, answered or given up as a remote error, so that the
\* cycle goes on to its end.
C11_CallsAreBounded ==
    (pc \in {"upload_wait", "plug_wait"}) ~>
        (pc \notin {"upload_wait", "plug_wait"})

\* ------------------------------------------------------------------ C12
\* C12: a cycle in which more syncs failed with a remote error than went
\* through (the majority of, or all, dirty files) ends as a failed cycle and
\* is followed by the short sleep.  A sync fails with a remote error when a
\* request of it gets a non-2xx answer, or when it ends the cycle with a
\* remote error.
C12_MajorityFailureIsCycleFailure ==
    [][(/\ pc # "sleep"
        /\ pc' = "sleep"
        /\ tally[1] + (IF err' = "remote" THEN 1 ELSE 0) > tally[2])
       => (err' # "none" /\ wait' = SHORT_SLEEP)]_vars

\* ------------------------------------------------------------------ C13
\* the files of the file system and, for each, the extension its name has:
\* the part after the last ".", without the ".", as written; a name without
\* "." and a name that only starts with "." have none
AllFiles == {A_PY, B_TXT, DOT_PY, C_PY, README, E_UPPER}
NameExtension(f) ==
    CASE f = A_PY -> Some("py")
      [] f = B_TXT -> Some("txt")
      [] f = DOT_PY -> None
      [] f = C_PY -> Some("py")
      [] f = README -> None
      [] f = E_UPPER -> Some("PY")

IsProperPrefix(s, t) == Len(s) < Len(t) /\ SubSeq(t, 1, Len(s)) = s

\* the existing files below an existing root whose extension is accepted
ExpectedFiles ==
    {f \in AllFiles :
        /\ f \in Tracked => f \in present
        /\ \E k \in 1..Len(directories) :
               /\ directories[k] \in FsDirs
               /\ IsProperPrefix(Components(directories[k]), Components(f))
        /\ \E k \in 1..Len(file_types) :
               NameExtension(f) = Some(file_types[k])}

\* C13: for every sequence of roots and of accepted extensions, a successful
\* scan yields exactly the existing files below the roots, at any depth,
\* whose extension is one of the accepted ones, compared case-sensitively
\* and without the dot: none is missing and no other file is in the list.
C13_ExtensionFiltering ==
    pc = "meta" => {files[k] : k \in 1..Len(files)} = ExpectedFiles

\* d holds a.py, b.txt, .py and the directory l with c.py, R and e.PY; with
\* {py} the scan of d yields a.py and c.py
C13_Witness ==
    /\ pc = "meta"
    /\ directories = <<DirD>>
    /\ file_types = <<"py">>
    /\ files = <<A_PY, C_PY>>

\* ------------------------------------------------------------------ C14
\* C14: the record of a path is written only when both the upload and the
\* attach call of that sync succeeded (were answered 2xx with an id); after
\* any failed call the tracker is what it was before the sync.
C14_RecordOnlyAfterConfirmation ==
    [][last_check' # last_check => (status = OK /\ tally'[1] = tally[1])]_vars

\* ------------------------------------------------------------------ C15
\* C15: a cycle goes on from the scan only with the complete file set.  When
\* the traversal of a root fails, upload_modified_files returns the scan
\* error at once: the files collected so far are dropped, no request is
\* sent and the tracker is unchanged.
C15_ScanErrorNoUsableFileSet ==
    [][(pc = "scan" /\ pc' # "scan") =>
          IF pc' = "meta"
          THEN {files'[k] : k \in 1..Len(files')} = ExpectedFiles
          ELSE /\ pc' = "sleep"
               /\ err' = "scan"
               /\ files' = <<>>
               /\ calls' = <<>>
               /\ creates' = creates
               /\ last_check' = last_check]_vars

\* a scan of d and d/l failed while a.py exists and has never been synced:
\* main sleeps, no request was sent and a.py has no record
C15_Witness ==
    /\ pc = "sleep"
    /\ err = "scan"
    /\ directories = <<DirD, DirDL>>
    /\ A_PY \in present
    /\ ~contains_key(last_check, A_PY)
    /\ creates[A_PY] = 0
    /\ calls = <<>>

\* ------------------------------------------------------------------ C16
\* C16: a sync sends the upload first and the attach call second.  Before
\* the upload is sent nothing has been sent; while it is in flight it is
\* the only request; the attach call is sent only with a content reference
\* the upload returned, carries that reference, and is the second request;
\* a sync that writes the record has sent exactly these two requests.
C16_UploadThenAttach ==
    /\ [](pc \in {"read", "upload"} => calls = <<>>)
    /\ [](pc \in {"upload_wait", "plug"} =>
            /\ Len(calls) = 1
            /\ calls[1].op = "upload"
            /\ calls[1].path = path)
    /\ [](pc \in {"plug", "plug_wait"} => file_id \in {Some(f) : f \in FileIds})
    /\ [](pc = "plug_wait" =>
            /\ Len(calls) = 2
            /\ calls[1].op = "upload"
            /\ calls[1].path = path
            /\ calls[2].op \in {"create", "update"}
            /\ calls[2].path = path
            /\ calls[2].file_id = file_id)
    /\ [][(pc # "plug" /\ pc' = "plug") =>
             (pc = "upload_wait" /\ file_id' # None)]_vars
    /\ [][last_check' # last_check => Len(calls) = 2]_vars

\* the attach call of a first sync is in flight with the content reference
\* f2 the upload returned
C16_Witness ==
    /\ pc = "plug_wait"
    /\ calls[1].op = "upload"
    /\ calls[2].op = "create"
    /\ calls[2].file_id = Some("f2")
    /\ file_id = Some("f2")

\* ------------------------------------------------------------------ C17
\* C17 as stated: a file modified after its modification time was sampled
\* (during the read or the network calls) is dirty once the record of the
\* sync is written.
C17_ModifiedAfterSamplingIsDirty ==
    [][(last_check' # last_check /\ mtime[path] # modified) =>
          IsDirty(last_check', path, mtime[path])]_vars

\* C17 amended: the time stored by a sync is the modification time sampled
\* before the content was read, unchanged through the sync; a file whose
\* modification time is strictly newer than the sampled one when the record
\* is written is dirty.  A modification that leaves the time older than the
\* sampled one is not seen.
C17_StoredTimeIsSampledTime ==
    /\ [][(pc = "meta" /\ pc' = "read") => modified' = mtime[path]]_vars
    /\ [][(InSync /\ pc' # "sleep" /\ pc' # "panicked") =>
             modified' = modified]_vars
    /\ [][last_check' # last_check =>
             /\ last_check'[path].last_modified = modified
             /\ mtime[path] > modified =>
                    IsDirty(last_check', path, mtime[path])]_vars

\* the record of the previous path was written with the sampled time and
\* the file has a newer time
C17_Witness ==
    /\ pc = "meta"
    /\ i > 1
    /\ tally # <<0, 0>>
    /\ files[i - 1] \in present
    /\ contains_key(last_check, files[i - 1])
    /\ last_check[files[i - 1]].last_modified = modified
    /\ mtime[files[i - 1]] > modified

C19_NoStarvation ==
    [](/\ C_PY \in present
       /\ mtime[C_PY] = 1
       /\ err_path # Some(C_PY)
       /\ err # "scan"
       /\ pc # "panicked")
    => <>(/\ contains_key(last_check, C_PY)
          /\ last_check[C_PY].last_modified = mtime[C_PY])

\* ------------------------------------------------------------------ C20
\* C20: every record holds a plug_id; a step changes at most the record of
\* the path whose sync is under way, and removes none.
C20_PerPathFrame ==
    /\ [](\A p \in DOMAIN last_check : last_check[p].plug_id # None)
    /\ [][/\ DOMAIN last_check \subseteq DOMAIN last_check'
          /\ \A p \in DOMAIN last_check' :
                (p \notin DOMAIN last_check \/ last_check'[p] # last_check[p])
                => (pc = "plug_wait" /\ p = path)]_vars

\* the record of c.py was just rewritten; the record of a.py, written in an
\* earlier sync with another time, is still there
C20_Witness ==
    /\ pc = "meta"
    /\ i > 1
    /\ files[i - 1] = C_PY
    /\ tally # <<0, 0>>
    /\ DOMAIN last_check = {A_PY, C_PY}
    /\ last_check[C_PY].last_modified = modified
    /\ last_check[A_PY].last_modified # modified
    /\ last_check[A_PY].plug_id # None

====
